---- MODULE Spec2Model ----
(***************************************************************************)
(* Face-recognition attendance service (src/app.py).                       *)
(*                                                                         *)
(* The store is the SQLite file attendance.db with the tables students     *)
(* and attendance; the engine is the AttendanceSystem object with its      *)
(* in-memory cache known_face_encodings / known_face_ids; the API is the   *)
(* five Flask routes.                                                      *)
(*                                                                         *)
(* Abstractions.                                                           *)
(*  - A student_id is a natural number standing for a one-character TEXT   *)
(*    key, so that ORDER BY s.student_id is the numeric order.             *)
(*  - A face embedding is a natural number (a one-dimensional vector);     *)
(*    face_distance is the absolute difference.                            *)
(*  - face_recognition is an external library.  compare_faces is kept      *)
(*    independent of face_distance, as the code uses them: every detected  *)
(*    face carries the set of embeddings that compare_faces accepts for    *)
(*    it.  A decision by a distance threshold is one of these sets.        *)
(*  - An image is the sequence of faces the library detects in it.         *)
(*  - The columns id, created_at and timestamp are left out: students is   *)
(*    the sequence of its rows in rowid order, attendance is the bag of    *)
(*    its rows.                                                            *)
(*  - Spec serves one request at a time; SpecRace interleaves the          *)
(*    statements of a register and a mark_attendance request.              *)
(***************************************************************************)
EXTENDS Integers, Sequences, FiniteSets, Bags, TLC

\* ---- bounds -------------------------------------------------------------
MaxStudents == 2     \* student ids 1..MaxStudents
MaxEmb      == 2     \* embeddings 1..MaxEmb
MaxFaces    == 1     \* faces detected in one image
MaxRows     == 3     \* rows of the attendance table
MaxDate     == 2     \* calendar dates 1..MaxDate

StudentIds == 1..MaxStudents
Embeddings == 1..MaxEmb
Dates      == 1..MaxDate
Names      == {"Ann"}
StatusList == <<"Absent", "Present">>
Statuses   == {StatusList[i] : i \in 1..Len(StatusList)}
NoField    == 0      \* request.form.get(...) of a missing field
NoEncoding == 0      \* a NULL face_encoding

Faces  == [enc : Embeddings, accept : SUBSET Embeddings]
Images == UNION {[1..n -> Faces] : n \in 0..MaxFaces}
\* request.files: without or with the entry 'image'
Files  == {<<>>} \cup {<<image>> : image \in Images}
\* the request threads of the server: one serves register requests, the
\* other mark_attendance requests
Registering == "t1"
Marking     == "t2"
Threads     == {Registering, Marking}

VARIABLES
    students,               \* table students, in rowid order
    attendance,             \* table attendance, a bag of rows
    known_face_encodings,   \* AttendanceSystem.known_face_encodings
    known_face_ids,         \* AttendanceSystem.known_face_ids
    today,                  \* date.today()
    req,                    \* the last request handled
    resp,                   \* the response to it
    replaced,               \* history: the face_encoding of the row that the
                            \* request in req replaced (NoEncoding if none)
    thr                     \* per request thread: its position in
                            \* register_student or mark_attendance and its locals

vars == <<students, attendance, known_face_encodings, known_face_ids,
          today, req, resp, replaced, thr>>

\* ---- helpers ------------------------------------------------------------
Abs(x) == IF x < 0 THEN -x ELSE x

Range(s) == {s[i] : i \in 1..Len(s)}

RECURSIVE SelectSeq2(_, _)
\* the subsequence of s whose elements are in the set keep
SelectSeq2(s, keep) ==
    IF s = <<>> THEN <<>>
    ELSE IF Head(s) \in keep THEN <<Head(s)>> \o SelectSeq2(Tail(s), keep)
    ELSE SelectSeq2(Tail(s), keep)

\* ---- store --------------------------------------------------------------
\* mutant of upsert_student: a plain INSERT into a table without the UNIQUE key
upsert_student_append(tbl, student_id, name, encoding) ==
    Append(tbl, [student_id |-> student_id, name |-> name,
                 face_encoding |-> encoding])

\* INSERT OR REPLACE INTO students: student_id is UNIQUE, so a row with the
\* same student_id is deleted and the new row gets a fresh rowid (AUTOINCREMENT)
upsert_student(tbl, student_id, name, encoding) ==
    Append(SelectSeq2(tbl, {r \in Range(tbl) : r.student_id # student_id}),
           [student_id |-> student_id, name |-> name, face_encoding |-> encoding])

\* INSERT OR REPLACE INTO attendance: the table's only key is the
\* AUTOINCREMENT id, which the statement does not give, so no row conflicts
\* and the row is added
insert_attendance(tbl, student_id, d, status) ==
    tbl (+) SetToBag({[student_id |-> student_id, date |-> d, status |-> status]})

\* ---- engine -------------------------------------------------------------
\* load_known_faces: the rows that pass "if encoding_json"
loaded_rows(tbl) ==
    SelectSeq2(tbl, {r \in Range(tbl) : r.face_encoding # NoEncoding})

\* load_known_faces: the two lists as rebuilt from the rows of students
load_encodings(tbl) ==
    LET rows == loaded_rows(tbl)
    IN  [i \in 1..Len(rows) |-> rows[i].face_encoding]
load_ids(tbl) ==
    LET rows == loaded_rows(tbl)
    IN  [i \in 1..Len(rows) |-> rows[i].student_id]

\* mutant of register_student: the row is written before the faces are counted
register_student_unchecked(tbl, student_id, name, image) ==
    LET face_encodings == [i \in 1..Len(image) |-> image[i].enc]
    IN  IF Len(face_encodings) = 0
        THEN [success |-> FALSE, message |-> "No face detected in the image",
              students |-> upsert_student(tbl, student_id, name, NoEncoding),
              reload |-> TRUE]
        ELSE [success |-> TRUE, message |-> "Student registered successfully",
              students |-> upsert_student(tbl, student_id, name, face_encodings[1]),
              reload |-> TRUE]

\* AttendanceSystem.register_student: the reply, the table afterwards and
\* whether load_known_faces ran
register_student(tbl, student_id, name, image) ==
    LET face_encodings == [i \in 1..Len(image) |-> image[i].enc]
    IN  IF Len(face_encodings) = 0
        THEN [success |-> FALSE, message |-> "No face detected in the image",
              students |-> tbl, reload |-> FALSE]
        ELSE [success |-> TRUE, message |-> "Student registered successfully",
              students |-> upsert_student(tbl, student_id, name, face_encodings[1]),
              reload |-> TRUE]

\* face_recognition.compare_faces(known, face): one decision per known encoding
compare_faces(known, face) == [i \in 1..Len(known) |-> known[i] \in face.accept]

\* face_recognition.face_distance(known, face): one distance per known encoding
face_distance(known, face) == [i \in 1..Len(known) |-> Abs(known[i] - face.enc)]

\* mutant of argmin: the last index of the minimum
argmin_last(d) ==
    CHOOSE i \in 1..Len(d) :
        /\ \A j \in 1..Len(d) : d[i] <= d[j]
        /\ \A j \in (i + 1)..Len(d) : d[j] > d[i]

\* np.argmin: the first index of the minimum
argmin(d) ==
    CHOOSE i \in 1..Len(d) :
        /\ \A j \in 1..Len(d) : d[i] <= d[j]
        /\ \A j \in 1..(i - 1) : d[j] > d[i]

\* SELECT name FROM students WHERE student_id = ?
student_name(tbl, student_id) ==
    IF \E r \in Range(tbl) : r.student_id = student_id
    THEN (CHOOSE r \in Range(tbl) : r.student_id = student_id).name
    ELSE "Unknown"

\* the body of the loop over face_encodings: the results one face adds
match_face(face, encs, ids, tbl) ==
    LET matches == compare_faces(encs, face)
        face_distances == face_distance(encs, face)
    IN  IF Len(face_distances) > 0
        THEN LET best_match_index == argmin(face_distances)
             IN  IF matches[best_match_index]
                 THEN <<[student_id |-> ids[best_match_index],
                         name |-> student_name(tbl, ids[best_match_index]),
                         status |-> "Present",
                         confidence |-> 1 - face_distances[best_match_index]]>>
                 ELSE <<>>
        ELSE <<>>

RECURSIVE attendance_results(_, _, _, _)
\* the loop over face_encodings
attendance_results(image, encs, ids, tbl) ==
    IF image = <<>> THEN <<>>
    ELSE match_face(Head(image), encs, ids, tbl)
            \o attendance_results(Tail(image), encs, ids, tbl)

\* present_students, as the set the sweep tests membership in
present_students(results) == {results[i].student_id : i \in 1..Len(results)}

RECURSIVE sort_ids(_)
\* a set of student ids in ascending order
sort_ids(S) ==
    IF S = {} THEN <<>>
    ELSE LET m == CHOOSE x \in S : \A y \in S : x <= y
         IN  <<m>> \o sort_ids(S \ {m})

\* SELECT student_id FROM students (SQLite scans the index of the UNIQUE
\* column, which yields the ids in ascending order)
all_students(tbl) == sort_ids({r.student_id : r \in Range(tbl)})

RECURSIVE sweep(_, _, _, _)
\* the loop over all_students: one INSERT OR REPLACE per student
sweep(att, ids, present, d) ==
    IF ids = <<>> THEN att
    ELSE sweep(insert_attendance(att, Head(ids), d,
                   IF Head(ids) \in present THEN "Present" ELSE "Absent"),
               Tail(ids), present, d)

\* ---- queries ------------------------------------------------------------
SqlNull == "NULL"

RECURSIVE copies(_, _)
\* n copies of x
copies(x, n) == IF n = 0 THEN <<>> ELSE <<x>> \o copies(x, n - 1)

RECURSIVE joined_rows(_, _, _, _)
\* the statuses of the rows of attendance that the LEFT JOIN pairs with one
\* student (SQL leaves their order open; they are listed by status)
joined_rows(att, student_id, d, sts) ==
    IF sts = <<>> THEN <<>>
    ELSE copies(Head(sts),
                CopiesIn([student_id |-> student_id, date |-> d,
                          status |-> Head(sts)], att))
            \o joined_rows(att, student_id, d, Tail(sts))

RECURSIVE left_join(_, _, _, _)
\* students s LEFT JOIN attendance a ON s.student_id = a.student_id AND
\* a.date = ? ORDER BY s.student_id; ids is the ascending list of student ids
left_join(tbl, att, ids, d) ==
    IF ids = <<>> THEN <<>>
    ELSE LET sid  == Head(ids)
             rows == joined_rows(att, sid, d, StatusList)
             mine == IF rows = <<>>
                     THEN <<[student_id |-> sid, name |-> student_name(tbl, sid),
                             status |-> SqlNull]>>
                     ELSE [i \in 1..Len(rows) |->
                             [student_id |-> sid, name |-> student_name(tbl, sid),
                              status |-> rows[i]]]
         IN  mine \o left_join(tbl, att, Tail(ids), d)

\* mutant of status_or_default: the status as the query returned it
status_as_stored(status) == status

\* record[2] or 'Not Recorded'
status_or_default(status) ==
    IF status = SqlNull \/ status = "" THEN "Not Recorded" ELSE status

\* GET /api/attendance/<date>: the list attendance_data
get_attendance(tbl, att, d) ==
    LET records == left_join(tbl, att, all_students(tbl), d)
    IN  [i \in 1..Len(records) |->
            [student_id |-> records[i].student_id, name |-> records[i].name,
             status |-> status_or_default(records[i].status)]]

\* GET /api/export/<date>: the lines of csv_data
export_attendance(tbl, att, d) ==
    LET records == left_join(tbl, att, all_students(tbl), d)
    IN  <<<<"Student ID", "Name", "Status", "Date">>>> \o
        [i \in 1..Len(records) |->
            <<records[i].student_id, records[i].name,
              status_or_default(records[i].status), d>>]

\* the face_encoding of the row of student_id (NoEncoding without a row)
encoding_of(tbl, student_id) ==
    IF \E r \in Range(tbl) : r.student_id = student_id
    THEN (CHOOSE r \in Range(tbl) : r.student_id = student_id).face_encoding
    ELSE NoEncoding

\* a thread between two requests
Idle == [pc |-> "idle", rows |-> <<>>, image |-> <<>>, matches |-> <<>>,
         face_distances |-> <<>>, present_students |-> {}, error |-> FALSE]

Init ==
    /\ students = <<>>
    /\ attendance = EmptyBag
    /\ known_face_encodings = <<>>
    /\ known_face_ids = <<>>
    /\ today = 1
    /\ req = [op |-> "start"]
    /\ resp = [success |-> TRUE]
    /\ replaced = NoEncoding
    /\ thr = [t \in Threads |-> Idle]

\* POST /api/register; req keeps the fields the handler looked at
Register(files, student_id, name) ==
    /\ IF files = <<>> THEN
            /\ req' = [op |-> "register", files |-> files]
            /\ resp' = [success |-> FALSE, message |-> "No image provided"]
            /\ replaced' = NoEncoding
            /\ UNCHANGED <<students, known_face_encodings, known_face_ids>>
       ELSE IF student_id = NoField \/ name = "" THEN
            /\ req' = [op |-> "register", student_id |-> student_id, name |-> name]
            /\ resp' = [success |-> FALSE,
                        message |-> "Student ID and name are required"]
            /\ replaced' = NoEncoding
            /\ UNCHANGED <<students, known_face_encodings, known_face_ids>>
       ELSE
            LET r == register_student(students, student_id, name, files[1])
            IN  /\ req' = [op |-> "register", files |-> files,
                           student_id |-> student_id, name |-> name]
                /\ resp' = [success |-> r.success, message |-> r.message]
                /\ students' = r.students
                /\ replaced' = IF r.success THEN encoding_of(students, student_id)
                               ELSE NoEncoding
                /\ IF r.reload
                   THEN /\ known_face_encodings' = load_encodings(students')
                        /\ known_face_ids' = load_ids(students')
                   ELSE UNCHANGED <<known_face_encodings, known_face_ids>>
    /\ UNCHANGED <<attendance, today, thr>>

\* POST /api/mark_attendance
MarkAttendance(files) ==
    /\ req' = [op |-> "mark", files |-> files]
    /\ IF files = <<>> THEN
            /\ resp' = [success |-> FALSE, message |-> "No image provided"]
            /\ UNCHANGED attendance
       ELSE
            LET results == attendance_results(files[1], known_face_encodings,
                                              known_face_ids, students)
            IN  /\ BagCardinality(attendance) + Len(students) <= MaxRows
                /\ attendance' = sweep(attendance, all_students(students),
                                       present_students(results), today)
                /\ resp' = [success |-> TRUE, results |-> results,
                            total_present |-> Len(results)]
    /\ replaced' = NoEncoding
    /\ UNCHANGED <<students, known_face_encodings, known_face_ids, today, thr>>

\* POST /api/update_attendance
UpdateAttendance(student_id, d, status) ==
    /\ BagCardinality(attendance) < MaxRows
    /\ req' = [op |-> "update", student_id |-> student_id, date |-> d,
               status |-> status]
    /\ attendance' = insert_attendance(attendance, student_id, d, status)
    /\ resp' = [success |-> TRUE, message |-> "Attendance updated"]
    /\ replaced' = NoEncoding
    /\ UNCHANGED <<students, known_face_encodings, known_face_ids, today, thr>>

\* GET /api/attendance/<date>
GetAttendance(d) ==
    /\ req' = [op |-> "get", date |-> d]
    /\ resp' = [date |-> d, attendance |-> get_attendance(students, attendance, d)]
    /\ replaced' = NoEncoding
    /\ UNCHANGED <<students, attendance, known_face_encodings, known_face_ids,
                   today, thr>>

\* GET /api/export/<date>
ExportAttendance(d) ==
    /\ req' = [op |-> "export", date |-> d]
    /\ resp' = [date |-> d, csv_data |-> export_attendance(students, attendance, d)]
    /\ replaced' = NoEncoding
    /\ UNCHANGED <<students, attendance, known_face_encodings, known_face_ids,
                   today, thr>>

\* the server's calendar date advances
NextDay ==
    /\ today < MaxDate
    /\ today' = today + 1
    /\ UNCHANGED <<students, attendance, known_face_encodings, known_face_ids,
                   req, resp, replaced, thr>>

Next ==
    \/ \E files \in Files, student_id \in StudentIds \cup {NoField},
          name \in Names \cup {""} : Register(files, student_id, name)
    \/ \E files \in Files : MarkAttendance(files)
    \/ \E student_id \in StudentIds, d \in Dates, status \in Statuses :
            UpdateAttendance(student_id, d, status)
    \/ \E d \in Dates : GetAttendance(d)
    \/ \E d \in Dates : ExportAttendance(d)
    \/ NextDay

Spec == Init /\ [][Next]_vars

\* ---- requests served by concurrent threads ------------------------------
\* Flask's development server runs every request in a thread of its own, and
\* AttendanceSystem takes no lock: a thread runs register_student or
\* mark_attendance one statement at a time, interleaved with the other thread.
\* A register request is taken up here once it has passed the handler's
\* checks with an image that has a face.

Serial == <<today, req, resp, replaced>>

\* register_student, lines 71-90, for a request that passed the handler's
\* checks and whose image has a face: the row is written and committed
RegisterBegin(t, student_id, name, image) ==
    /\ t = Registering
    /\ thr[t].pc = "idle"
    /\ Len(image) > 0
    /\ students' = upsert_student(students, student_id, name, image[1].enc)
    /\ thr' = [thr EXCEPT ![t] = [Idle EXCEPT !.pc = "load_select"]]
    /\ UNCHANGED <<attendance, known_face_encodings, known_face_ids, Serial>>

\* load_known_faces, lines 53-57: students = cursor.fetchall()
LoadSelect(t) ==
    /\ thr[t].pc = "load_select"
    /\ thr' = [thr EXCEPT ![t].rows = students, ![t].pc = "load_reset_encodings"]
    /\ UNCHANGED <<students, attendance, known_face_encodings, known_face_ids,
                   Serial>>

\* load_known_faces, line 59: self.known_face_encodings = []
LoadResetEncodings(t) ==
    /\ thr[t].pc = "load_reset_encodings"
    /\ known_face_encodings' = <<>>
    /\ thr' = [thr EXCEPT ![t].pc = "load_reset_ids"]
    /\ UNCHANGED <<students, attendance, known_face_ids, Serial>>

\* load_known_faces, line 60: self.known_face_ids = []
LoadResetIds(t) ==
    /\ thr[t].pc = "load_reset_ids"
    /\ known_face_ids' = <<>>
    /\ thr' = [thr EXCEPT ![t].pc = "load_row"]
    /\ UNCHANGED <<students, attendance, known_face_encodings, Serial>>

\* load_known_faces, lines 62-65: the next row's encoding is appended to the
\* list the attribute names now; after the last row register_student returns
LoadAppendEncoding(t) ==
    /\ thr[t].pc = "load_row"
    /\ IF thr[t].rows = <<>> THEN
            /\ thr' = [thr EXCEPT ![t] = Idle]
            /\ UNCHANGED known_face_encodings
       ELSE IF Head(thr[t].rows).face_encoding = NoEncoding THEN
            /\ thr' = [thr EXCEPT ![t].rows = Tail(@)]
            /\ UNCHANGED known_face_encodings
       ELSE
            /\ known_face_encodings' =
                    Append(known_face_encodings, Head(thr[t].rows).face_encoding)
            /\ thr' = [thr EXCEPT ![t].pc = "load_append_id"]
    /\ UNCHANGED <<students, attendance, known_face_ids, Serial>>

\* load_known_faces, line 66: self.known_face_ids.append(student_id)
LoadAppendId(t) ==
    /\ thr[t].pc = "load_append_id"
    /\ known_face_ids' = Append(known_face_ids, Head(thr[t].rows).student_id)
    /\ thr' = [thr EXCEPT ![t].rows = Tail(@), ![t].pc = "load_row"]
    /\ UNCHANGED <<students, attendance, known_face_encodings, Serial>>

\* mark_attendance, lines 105-112: the faces of the image are found
MarkBegin(t, image) ==
    /\ t = Marking
    /\ thr[t].pc = "idle"
    /\ thr' = [thr EXCEPT ![t] = [Idle EXCEPT !.image = image,
                    !.pc = IF image = <<>> THEN "sweep" ELSE "compare"]]
    /\ UNCHANGED <<students, attendance, known_face_encodings, known_face_ids,
                   Serial>>

\* mark_attendance, line 116: matches = compare_faces(self.known_face_encodings, ..)
Compare(t) ==
    /\ thr[t].pc = "compare"
    /\ thr' = [thr EXCEPT
                ![t].matches = compare_faces(known_face_encodings, Head(thr[t].image)),
                ![t].pc = "distance"]
    /\ UNCHANGED <<students, attendance, known_face_encodings, known_face_ids,
                   Serial>>

\* mark_attendance, line 117: face_distances = face_distance(self.known_face_encodings, ..)
Distance(t) ==
    /\ thr[t].pc = "distance"
    /\ thr' = [thr EXCEPT
                ![t].face_distances =
                    face_distance(known_face_encodings, Head(thr[t].image)),
                ![t].pc = "select"]
    /\ UNCHANGED <<students, attendance, known_face_encodings, known_face_ids,
                   Serial>>

\* mark_attendance, lines 119-138: the best match is looked up in matches and
\* in self.known_face_ids; an index past the end of either list raises
\* IndexError, which ends the request
Select(t) ==
    /\ thr[t].pc = "select"
    /\ LET d    == thr[t].face_distances
           best == argmin(d)
           rest == Tail(thr[t].image)
           next == IF rest = <<>> THEN "sweep" ELSE "compare"
       IN  IF Len(d) = 0 THEN
                thr' = [thr EXCEPT ![t].image = rest, ![t].pc = next]
           ELSE IF best > Len(thr[t].matches) THEN
                thr' = [thr EXCEPT ![t] = [Idle EXCEPT !.error = TRUE]]
           ELSE IF ~thr[t].matches[best] THEN
                thr' = [thr EXCEPT ![t].image = rest, ![t].pc = next]
           ELSE IF best > Len(known_face_ids) THEN
                thr' = [thr EXCEPT ![t] = [Idle EXCEPT !.error = TRUE]]
           ELSE
                thr' = [thr EXCEPT ![t].image = rest, ![t].pc = next,
                            ![t].present_students = @ \cup {known_face_ids[best]}]
    /\ UNCHANGED <<students, attendance, known_face_encodings, known_face_ids,
                   Serial>>

\* mark_attendance, lines 141-159: the sweep over all students
Sweep(t) ==
    /\ thr[t].pc = "sweep"
    /\ BagCardinality(attendance) + Len(students) <= MaxRows
    /\ attendance' = sweep(attendance, all_students(students),
                           thr[t].present_students, today)
    /\ thr' = [thr EXCEPT ![t] = Idle]
    /\ UNCHANGED <<students, known_face_encodings, known_face_ids, Serial>>

RaceNext ==
    \E t \in Threads :
        \/ \E student_id \in StudentIds, name \in Names, image \in Images :
                RegisterBegin(t, student_id, name, image)
        \/ LoadSelect(t)
        \/ LoadResetEncodings(t)
        \/ LoadResetIds(t)
        \/ LoadAppendEncoding(t)
        \/ LoadAppendId(t)
        \/ \E image \in Images : MarkBegin(t, image)
        \/ Compare(t)
        \/ Distance(t)
        \/ Select(t)
        \/ Sweep(t)

SpecRace == Init /\ [][RaceNext]_vars

\* ---- properties ---------------------------------------------------------
\* the ids of the known students
KnownIds == {r.student_id : r \in Range(students)}

\* the entries of a get_attendance list that are about one student
entries_of(list, student_id) ==
    SelectSeq2(list, {e \in Range(list) : e.student_id = student_id})

\* the list get_attendance returns when every known student has exactly one
\* entry, Present for the students in present and Absent for the others
roster(tbl, present) ==
    LET ids == sort_ids({r.student_id : r \in Range(tbl)})
    IN  [i \in 1..Len(ids) |->
            [student_id |-> ids[i], name |-> student_name(tbl, ids[i]),
             status |-> IF ids[i] \in present THEN "Present" ELSE "Absent"]]

\* the last request was a mark_attendance that reached the engine
Marked == req.op = "mark" /\ req.files # <<>>

\* C1: the attendance table holds at most one record for each
\* (student_id, date) pair
C1_OneRecordPerStudentDate ==
    \A student_id \in StudentIds, d \in Dates :
        Len(joined_rows(attendance, student_id, d, StatusList)) <= 1

\* C2: when a mark_attendance call follows another one of the same day with a
\* different matched set, GET /api/attendance/{today} returns for every known
\* student exactly the status the second call assigned
C2_SecondMarkOverwrites ==
    [][(/\ Marked
        /\ Marked'
        /\ today' = today
        /\ present_students(resp.results) # present_students(resp'.results))
       => get_attendance(students', attendance', today')
            = roster(students', present_students(resp'.results))]_vars

\* C3: after update_attendance(S, d, v) for a known student S,
\* GET /api/attendance/{d} has exactly one entry for S and its status is v
C3_UpdateReflected ==
    (req.op = "update" /\ req.student_id \in KnownIds)
    => entries_of(get_attendance(students, attendance, req.date), req.student_id)
        = <<[student_id |-> req.student_id,
             name |-> student_name(students, req.student_id),
             status |-> req.status]>>

\* the image had exactly one face, and the cached identity nearest to it is
\* student_id and is accepted by compare_faces
OneFaceMatches(image, student_id) ==
    /\ Len(image) = 1
    /\ known_face_encodings # <<>>
    /\ LET best == argmin(face_distance(known_face_encodings, image[1]))
       IN  /\ known_face_ids[best] = student_id
           /\ compare_faces(known_face_encodings, image[1])[best]

\* C4: after mark_attendance on an image with exactly one face, which matches
\* the registered student S, the response has exactly one result, Present for
\* S, and GET /api/attendance/{today} shows S Present and every other known
\* student Absent
C4_SingleMatchRoster ==
    \A S \in StudentIds :
        (Marked /\ OneFaceMatches(req.files[1], S))
        => /\ Len(resp.results) = 1
           /\ resp.results[1].student_id = S
           /\ resp.results[1].status = "Present"
           /\ get_attendance(students, attendance, today) = roster(students, {S})

\* the last request was a register that stored a row
Registered == req.op = "register" /\ resp.success

\* C5: students has at most one row per student_id; once a register returns,
\* the store and the cache hold for its student_id the embedding of that
\* request only, and the cache is the store's content
C5_RegisterReplaces ==
    /\ \A i, j \in 1..Len(students) :
            students[i].student_id = students[j].student_id => i = j
    /\ known_face_encodings = [i \in 1..Len(students) |-> students[i].face_encoding]
    /\ known_face_ids = [i \in 1..Len(students) |-> students[i].student_id]
    /\ Registered =>
        \A i \in 1..Len(known_face_ids) :
            known_face_ids[i] = req.student_id
            => known_face_encodings[i] = req.files[1][1].enc

\* a register has just replaced the embedding of a student by another one
C5_Witness ==
    /\ Registered
    /\ replaced # NoEncoding
    /\ replaced # req.files[1][1].enc
    /\ Len(students) > 1

\* the step is a register request that reached the engine with an image
\* without a face
NoFaceStep ==
    /\ req'.op = "register"
    /\ today' = today
    /\ "student_id" \in DOMAIN req'
    /\ "files" \in DOMAIN req'
    /\ Len(req'.files[1]) = 0

\* C6: register with an image without a face answers success=false with the
\* message "No face detected in the image" and leaves the students table and
\* the cache as they were
C6_NoFaceNoChange ==
    [][NoFaceStep
       => /\ resp' = [success |-> FALSE,
                      message |-> "No face detected in the image"]
          /\ UNCHANGED <<students, known_face_encodings, known_face_ids>>]_vars

\* a register without a face was refused while students were known
C6_Witness ==
    /\ req.op = "register"
    /\ "student_id" \in DOMAIN req
    /\ "files" \in DOMAIN req
    /\ Len(req.files[1]) = 0
    /\ resp.message = "No face detected in the image"
    /\ req.student_id \in KnownIds

\* C7: the export for any date has one line more than there are known
\* students, one line per student in ascending student_id order
C7_ExportLines ==
    \A d \in Dates :
        LET csv == export_attendance(students, attendance, d)
            ids == all_students(students)
        IN  /\ Len(csv) = Len(students) + 1
            /\ \A i \in 1..Len(ids) : csv[i + 1][1] = ids[i]

\* no row of attendance has the date d
NoRows(d) == \A a \in BagToSet(attendance) : a.date # d

\* C8: for a date without attendance rows, GET /api/attendance/{d} has exactly
\* one entry per known student and each has the status "Not Recorded"
C8_NotRecorded ==
    \A d \in Dates :
        NoRows(d) =>
            LET list == get_attendance(students, attendance, d)
            IN  /\ \A S \in KnownIds : Len(entries_of(list, S)) = 1
                /\ Len(list) = Cardinality(KnownIds)
                /\ \A i \in 1..Len(list) : list[i].status = "Not Recorded"

\* GET was answered for a date without rows while other dates have rows
C8_Witness ==
    /\ req.op = "get"
    /\ NoRows(req.date)
    /\ attendance # EmptyBag
    /\ Len(resp.attendance) > 1

\* the positions of the cache at minimum distance from the face
Nearest(face) ==
    {i \in 1..Len(known_face_encodings) :
        \A j \in 1..Len(known_face_encodings) :
            Abs(known_face_encodings[i] - face.enc)
                <= Abs(known_face_encodings[j] - face.enc)}

\* the result the face must yield: none with an empty cache; otherwise the
\* first nearest identity, and only if compare_faces accepts that identity
ExpectedFor(face) ==
    IF Nearest(face) = {} THEN <<>>
    ELSE LET i == CHOOSE k \in Nearest(face) : \A j \in Nearest(face) : k <= j
         IN  IF known_face_encodings[i] \in face.accept
             THEN <<[student_id |-> known_face_ids[i],
                     distance |-> Abs(known_face_encodings[i] - face.enc)]>>
             ELSE <<>>

RECURSIVE Expected(_)
Expected(image) ==
    IF image = <<>> THEN <<>> ELSE ExpectedFor(Head(image)) \o Expected(Tail(image))

\* C9: each detected face yields a result only for the first cached identity
\* at minimum distance, and only if the match decision holds for that
\* identity; otherwise it yields nothing
C9_BestMatchOnly ==
    Marked =>
        LET want == Expected(req.files[1])
        IN  /\ Len(resp.results) = Len(want)
            /\ resp.total_present = Len(want)
            /\ \A i \in 1..Len(want) :
                /\ resp.results[i].student_id = want[i].student_id
                /\ resp.results[i].status = "Present"
                /\ resp.results[i].confidence = 1 - want[i].distance

\* a face was dropped because the nearest identity was not accepted, although
\* compare_faces accepted another cached identity
C9_Witness ==
    /\ Marked
    /\ Len(req.files[1]) = 1
    /\ resp.results = <<>>
    /\ \E i \in 1..Len(known_face_encodings) :
            known_face_encodings[i] \in req.files[1][1].accept

\* some thread is in the comparison of mark_attendance, lines 116-123
Comparing == \E t \in Threads : thr[t].pc \in {"compare", "distance", "select"}

\* C10: whenever a mark_attendance comparison can read the cache, the two
\* lists have the same length, the id at each position is the student whose
\* embedding is at that position, and the index of the minimum distance is a
\* position of known_face_ids
C10_CacheLockstep ==
    Comparing =>
        /\ Len(known_face_encodings) = Len(known_face_ids)
        /\ \A i \in 1..Len(known_face_ids) :
                encoding_of(students, known_face_ids[i]) = known_face_encodings[i]
        /\ \A t \in Threads :
                (thr[t].pc = "select" /\ thr[t].face_distances # <<>>)
                => argmin(thr[t].face_distances) <= Len(known_face_ids)
====
